---- MODULE Spec2Model ----
(***************************************************************************)
(* Short-code resolution and click recording of the URL shortener:         *)
(* UrlService (createUrl, getUrlByShortCode, updateUrl, deleteUrl), the    *)
(* Redis helpers (get, set, del, incr), the redirect rate limiter,         *)
(* handleRedirect and AnalyticsService.recordClick, over the urls and      *)
(* url_clicks tables.                                                      *)
(*                                                                         *)
(* Every await of the JavaScript code is a step boundary: one action is    *)
(* the code that runs between two awaits together with the store or cache  *)
(* command the first await waits for.                                      *)
(***************************************************************************)
EXTENDS Integers, Sequences, FiniteSets, TLC

----------------------------------------------------------------------------
(* Bounds of the model *)

\* The clock runs from 0 to MaxTime seconds, in steps of TickStep.
MaxTime == 3600
\* Number of ids the urls table hands out (number of INSERTs that succeed).
MaxIds == 2
\* Number of redirect requests that arrive in a behaviour.
MaxRequests == 2
\* Number of updateUrl/deleteUrl calls in a behaviour.
MaxWrites == 1
\* Number of requests the clients keep in flight at once.
MaxClients == 2

----------------------------------------------------------------------------
(* Program constants *)

CacheTTL == 3600
ClientWindow == 3600
ClientMax == 1000
UrlWindow == 60
UrlMax == 10
customAliasMinLength == 3
customAliasMaxLength == 50
MaxUrlLength == 2048
Retries == 5

\* JavaScript null / SQL NULL for string-valued fields, and a missing
\* property (undefined).
Null == "<null>"
Undefined == "<undefined>"
\* SQL NULL of a timestamp column (expires_at); falsy in `url.expires_at &&`.
NoTime == 0
\* A Redis key that carries no TTL.
NoTTL == -1

\* Clock step: half the cache TTL, so that a link can expire while its cache
\* entry is still alive.
TickStep == 1800

\* Clock step and horizon where the rate limiter is studied: half a
\* rate-limit window, and one whole window.
RateStep == 30
RateHorizon == 60

----------------------------------------------------------------------------
(* Strings: the characters of every string whose content the code inspects *)

Chars(s) ==
  CASE s = "abc123"    -> <<"a","b","c","1","2","3">>
    [] s = "undefined" -> <<"u","n","d","e","f","i","n","e","d">>
    [] s = "ab"        -> <<"a","b">>
    [] s = "my-link"   -> <<"m","y","-","l","i","n","k">>
    [] s = "a@b"       -> <<"a","@","b">>
    [] s = "Moz"       -> <<"M","o","z">>
    [] s = "GBot"      -> <<"G","B","o","t">>
    [] s = "bot"       -> <<"b","o","t">>
    [] s = "curl"      -> <<"c","u","r","l">>
    [] s = "wget"      -> <<"w","g","e","t">>
    [] s = ""          -> <<>>
    [] OTHER           -> <<>>

\* String.prototype.toLowerCase on one character.
LowerChar(ch) ==
  CASE ch = "G" -> "g"
    [] ch = "B" -> "b"
    [] ch = "M" -> "m"
    [] OTHER    -> ch

toLowerCase(cs) == [i \in DOMAIN cs |-> LowerChar(cs[i])]

\* String.prototype.includes on character sequences.
includes(cs, pat) ==
  \E i \in 0..(Len(cs) - Len(pat)) :
     \A j \in 1..Len(pat) : cs[i + j] = pat[j]

\* /^[a-zA-Z0-9_-]+$/
AliasChar == {"a","b","c","d","e","f","i","k","l","m","n","u","y","1","2","3","_","-"}
AliasRegex(s) == Len(Chars(s)) > 0 /\ \A i \in 1..Len(Chars(s)) : Chars(s)[i] \in AliasChar

\* Joi.string().alphanum(): letters and digits only.
alphanum(s) ==
  Len(Chars(s)) > 0 /\ \A i \in 1..Len(Chars(s)) : Chars(s)[i] \in AliasChar \ {"_", "-"}

\* `${v}`: how a template literal prints a value.
TemplateStr(v) == IF v = Undefined THEN "undefined" ELSE v

\* Property access on a JavaScript object: a missing property is undefined.
Prop(obj, f) == IF f \in DOMAIN obj THEN obj[f] ELSE Undefined
\* Truthiness of a boolean-valued property (a missing one is falsy).
TruthyFlag(obj, f) == f \in DOMAIN obj /\ obj[f] = TRUE
\* Truthiness of a string-valued property (null, undefined and "" are falsy).
TruthyStr(obj, f) == f \in DOMAIN obj /\ obj[f] \notin {Null, Undefined, ""}

----------------------------------------------------------------------------
(* The values the environment supplies *)

\* Short codes that clients ask for; "abc123" is what nanoid(6) draws,
\* "undefined" is a custom alias.
Codes == {"abc123", "undefined"}
RandomCodes == {"abc123"}
\* customAlias of a create request (Undefined: none given).
AliasInputs == {Undefined, "abc123", "undefined", "ab"}
UrlInputs == {"https://a.example", "not-a-valid-url"}
Users == {"u1", "u2"}
Owners == {"u1"}
ExpiryInputs == {NoTime, 900}
ClientIp == "10.0.0.1"
Resolvers == {"r1", "r2"}
Creators == {"c1", "c2"}

\* bcrypt: the hash stored for the password "secret".
SecretHash == "$2a$secret"
bcryptCompare(password, hash) == password = "secret" /\ hash = SecretHash

\* Requests of GET /:shortCode (User-Agent header, ?preview, and the password
\* of the query or the x-url-password header): a browser, a bot, a preview,
\* and a browser that sends a password.
Browser == [ua |-> "Moz",  preview |-> "false", password |-> Undefined]
Bot == [ua |-> "GBot", preview |-> "false", password |-> Undefined]
Preview == [ua |-> "Moz",  preview |-> "true",  password |-> Undefined]
WithPassword(p) == [ua |-> "Moz",  preview |-> "false", password |-> p]

NullRec == [null |-> TRUE]

----------------------------------------------------------------------------
VARIABLES
  now,        \* the clock (seconds)
  urls,       \* the urls table: a set of rows
  url_clicks, \* the url_clicks table: a set of rows
  nextId,     \* next id of the urls table
  nextClick,  \* next id of the url_clicks table
  cache,      \* Redis keys url:<code>: code -> NullRec or [val, exp]
  rl,         \* Redis keys redirect:*: key -> NullRec or [n, exp, at]
  parsing,    \* AnalyticsService.enableUserAgentParsing
  rq,         \* handleRedirect invocations: resolver -> its position and locals
  tasks,      \* recordClick calls whose INSERT has not run yet
  cr,         \* createUrl invocations: creator -> its position and locals
  wr,         \* the updateUrl/deleteUrl invocation: its position and locals
  out,        \* the last response sent or value returned to a caller
  written,    \* short codes of the links an update or delete has returned for
  clients,    \* how many requests the clients keep in flight at once
  nreq,       \* redirect requests arrived so far
  nwrites,    \* updateUrl/deleteUrl calls made so far
  passed      \* code -> when redirectLimiter let requests through (last UrlWindow seconds)

vars == <<now, urls, url_clicks, nextId, nextClick, cache, rl, parsing, rq,
          tasks, cr, wr, out, written, clients, nreq, nwrites, passed>>

\* Requests that have started and not yet been answered.
InFlight ==
  Cardinality({r \in Resolvers : rq[r].pc \notin {"idle", "limited"}})
  + Cardinality({c \in Creators : cr[c].pc # "idle"})
  + (IF wr.pc # "idle" THEN 1 ELSE 0)

----------------------------------------------------------------------------
(* Redis: get, set, del, incr *)

\* A key is there until its TTL has run out.
Alive(e) == e # NullRec /\ (e.exp = NoTTL \/ e.exp > now)

\* JSON.stringify / JSON.parse of the cached object: a Date becomes its ISO
\* string and stays a string after the parse; null, booleans, numbers and
\* strings come back as they were.
toISOString(t) == [iso |-> t]
DateFields == {"expires_at", "expiresAt"}
JSONstringify(obj) ==
  [json |-> [f \in DOMAIN obj |->
               IF f \in DateFields /\ obj[f] # NoTime THEN toISOString(obj[f])
               ELSE obj[f]]]
JSONparse(str) == str.json

\* get(key): `value ? JSON.parse(value) : null`.
RedisGet(c) == IF Alive(cache[c]) THEN JSONparse(cache[c].val) ELSE NullRec

\* (A set that never passes the TTL on.)
RedisSetNoExpiry(c, obj, ttl) ==
  [cache EXCEPT ![c] = [val |-> JSONstringify(obj), exp |-> NoTTL, at |-> now]]

\* set(key, value, ttl): client.setEx(key, ttl, JSON.stringify(value)), or
\* client.set without a TTL when ttl is 0. The entry remembers when it was
\* written.
RedisSet(c, obj, ttl) ==
  [cache EXCEPT ![c] = [val |-> JSONstringify(obj),
                        exp |-> IF ttl = 0 THEN NoTTL ELSE now + ttl,
                        at  |-> now]]

\* del(key)
RedisDel(c) == [cache EXCEPT ![c] = NullRec]

\* The rate-limit keys: redirect:ip:<ip> and redirect:url:<code>:<ip>.
ClientKey == <<"redirect:ip", ClientIp>>
UrlKey(code) == <<"redirect:url", code, ClientIp>>
RlKeys == {ClientKey} \cup {UrlKey(c) : c \in Codes}

\* (An increment that answers with the count before it.)
IncrResultBefore(k) == IF Alive(rl[k]) THEN rl[k].n ELSE 0

\* client.incr(key): the counter after the increment (a missing or expired
\* key counts from 0 and has no TTL). The entry remembers when it was
\* created.
IncrResult(k) == IF Alive(rl[k]) THEN rl[k].n + 1 ELSE 1

RedisIncr(k) ==
  [rl EXCEPT ![k] = IF Alive(rl[k]) THEN [rl[k] EXCEPT !.n = @ + 1]
                    ELSE [n |-> 1, exp |-> NoTTL, at |-> now]]
\* client.expire(key, ttl)
RedisExpire(k, ttl) ==
  IF Alive(rl[k]) THEN [rl EXCEPT ![k].exp = now + ttl] ELSE rl

----------------------------------------------------------------------------
(* UrlService: projections of a row *)

\* The object getUrlByShortCode builds from a row (is_public, created_at,
\* updated_at, last_accessed and user_email are not columns of the model).
UrlDataOf(row) ==
  [ id          |-> row.id,
    userId      |-> row.user_id,
    originalUrl |-> row.original_url,
    shortCode   |-> row.short_code,
    customAlias |-> row.custom_alias,
    title       |-> row.title,
    description |-> row.description,
    isActive    |-> row.is_active,
    clickCount  |-> row.click_count,
    expiresAt   |-> row.expires_at ]

\* cacheUrl(url, ttl = 3600): the key is built from url.shortCode.
CacheKeyOf(url) == TemplateStr(Prop(url, "shortCode"))
\* (cacheUrl without its TTL: the entry never ends.)
cacheUrlForever(url) == RedisSet(CacheKeyOf(url), url, 0)
cacheUrl(url) == RedisSet(CacheKeyOf(url), url, CacheTTL)

\* SELECT ... WHERE u.short_code = $1 AND u.is_active = true
SelectActiveByShortCode(code) ==
  {u \in urls : u.short_code = code /\ u.is_active = TRUE}

\* `url.expires_at && new Date(url.expires_at) < new Date()`
IsExpired(row) == row.expires_at # NoTime /\ row.expires_at < now

----------------------------------------------------------------------------
(* AnalyticsService *)

botPatterns == {"bot", "curl", "wget"}

detectBot(userAgent) ==
  \E p \in botPatterns : includes(toLowerCase(Chars(userAgent)), Chars(p))

\* The synchronous part of recordClick: the row it is about to insert.
ClickRowOf(urlId, userAgent) ==
  [ url_id     |-> urlId,
    user_agent |-> userAgent,
    is_bot     |-> IF parsing /\ userAgent # "" THEN detectBot(userAgent) ELSE FALSE ]

----------------------------------------------------------------------------
(* handleRedirect *)

NoCtx == [ua |-> "", preview |-> Undefined, password |-> Undefined]
IdleRq == [pc |-> "idle", shortCode |-> Null, ctx |-> NoCtx, n |-> 0,
           urlData |-> NullRec, overlap |-> FALSE, alone |-> FALSE, clicks0 |-> 0,
           rlFailed |-> 0, cacheFailed |-> FALSE, created |-> NullRec]

Response(status, kind, url) == [status |-> status, kind |-> kind, url |-> url]

\* The response handleRedirect sends for the record getUrlByShortCode gave it.
HandlerResponse(urlData, ctx) ==
  IF urlData = NullRec THEN Response(404, "notFound", Undefined)
  ELSE IF ~TruthyFlag(urlData, "isActive") THEN Response(410, "inactive", Undefined)
  ELSE IF detectBot(ctx.ua) THEN Response(200, "bot", Prop(urlData, "originalUrl"))
  ELSE IF ctx.preview = "true" THEN Response(200, "preview", Prop(urlData, "originalUrl"))
  ELSE IF TruthyStr(urlData, "passwordHash") /\ ctx.password \in {Undefined, ""}
       THEN Response(401, "passwordRequired", Undefined)
  ELSE IF TruthyStr(urlData, "passwordHash")
          /\ ~bcryptCompare(ctx.password, urlData.passwordHash)
       THEN Response(401, "invalidPassword", Undefined)
  ELSE Response(301, "redirect", Prop(urlData, "originalUrl"))

\* recordClick is called for every record that is found and active, before
\* the bot, preview and password branches.
RecordsClick(urlData) == urlData # NullRec /\ TruthyFlag(urlData, "isActive")

\* The row of the urls table that carries the short code (the store's truth
\* at the moment a response is sent).
StoreRow(code) ==
  IF \E u \in urls : u.short_code = code
  THEN CHOOSE u \in urls : u.short_code = code
  ELSE NullRec

\* click_count of the link as a reader of the store sees it (0 when there is
\* no such link).
ClickCountOf(code) ==
  IF StoreRow(code) = NullRec THEN 0 ELSE StoreRow(code).click_count

\* What createUrl returned, when the last answer any caller got is that of a
\* successful createUrl with this short code, given at this very time.
JustCreated(code) ==
  IF out.op = "create" /\ out.status = 201 /\ out.result.shortCode = code
     /\ out.at = now
  THEN [out.result EXCEPT !.originalUrl = out.data.originalUrl] ELSE NullRec

\* The answer before this one was NotFound for the same code, given at this
\* very time.
AnsweredNotFound(code) ==
  /\ out.op = "resolve"
  /\ out.code = code
  /\ out.res.kind = "notFound"
  /\ out.at = now

\* What a caller sees of a request that getUrlByShortCode has returned
\* urlData for: the response of handleRedirect and, beside it, what the store
\* holds and how the record was obtained. hit tells whether urlData came from
\* the cache, queried whether the SELECT ran.
Answer(r, urlData, hit, queried) ==
  [op |-> "resolve", code |-> rq[r].shortCode, ctx |-> rq[r].ctx,
   urlData |-> urlData, res |-> HandlerResponse(urlData, rq[r].ctx),
   row |-> StoreRow(rq[r].shortCode), hit |-> hit, queried |-> queried,
   age |-> IF hit THEN now - cache[rq[r].shortCode].at ELSE 0,
   recorded |-> RecordsClick(urlData), overlap |-> rq[r].overlap,
   alone |-> rq[r].alone, clicks0 |-> rq[r].clicks0, n |-> rq[r].n,
   rlFailed |-> rq[r].rlFailed, cacheFailed |-> rq[r].cacheFailed,
   storeFailed |-> FALSE, created |-> rq[r].created,
   again |-> AnsweredNotFound(rq[r].shortCode), at |-> now]

\* The recordClick calls not yet run, after handleRedirect has dealt with
\* urlData.
Dispatched(r, urlData) ==
  IF RecordsClick(urlData)
  THEN Append(tasks, ClickRowOf(Prop(urlData, "id"), rq[r].ctx.ua))
  ELSE tasks

\* The tail of handleRedirect after getUrlByShortCode has returned urlData:
\* no await separates it from the response (bcrypt.compare reads no shared
\* state).
Finish(r, urlData, hit, queried) ==
  /\ rq' = [rq EXCEPT ![r] = IdleRq]
  /\ out' = Answer(r, urlData, hit, queried)
  /\ tasks' = Dispatched(r, urlData)

\* 429 from redirectLimiter: it sends the response and returns without
\* calling next(), so the Promise handleRedirect awaits is never resolved and
\* the invocation stays where it is.
RateLimited(r) ==
  /\ rq' = [rq EXCEPT ![r] = [IdleRq EXCEPT !.pc = "limited"]]
  /\ out' = [op |-> "resolve", code |-> rq[r].shortCode, ctx |-> rq[r].ctx,
             urlData |-> NullRec, res |-> Response(429, "rateLimited", Undefined),
             row |-> StoreRow(rq[r].shortCode), hit |-> FALSE, queried |-> FALSE,
             age |-> 0, recorded |-> FALSE, overlap |-> rq[r].overlap,
             alone |-> rq[r].alone, clicks0 |-> rq[r].clicks0, n |-> rq[r].n,
             rlFailed |-> rq[r].rlFailed, cacheFailed |-> rq[r].cacheFailed,
             storeFailed |-> FALSE, created |-> rq[r].created,
             again |-> FALSE, at |-> now]

\* A request arrives; redirectLimiter's first INCR (redirect:ip:<ip>) runs.
Arrive(r, code, ctx) ==
  /\ rq[r].pc = "idle"
  /\ InFlight < clients
  /\ nreq < MaxRequests
  /\ nreq' = nreq + 1
  /\ rl' = RedisIncr(ClientKey)
  /\ rq' = [rq EXCEPT ![r] = [IdleRq EXCEPT !.shortCode = code, !.ctx = ctx,
                                 !.overlap = (wr.pc # "idle"),
                                 !.alone = (InFlight = 0),
                                 !.clicks0 = ClickCountOf(code),
                                 !.created = JustCreated(code),
                                 !.n = IncrResult(ClientKey),
                                 !.pc = IF IncrResult(ClientKey) = 1
                                        THEN "clientExpire" ELSE "clientCheck"]]
  /\ UNCHANGED <<now, urls, url_clicks, nextId, nextClick, cache, parsing, tasks,
                 cr, wr, out, written, clients, nwrites, passed>>

\* incr: `if (ttl && result === 1) await client.expire(key, ttl)`.
ClientExpire(r) ==
  /\ rq[r].pc = "clientExpire"
  /\ rl' = RedisExpire(ClientKey, ClientWindow)
  /\ rq' = [rq EXCEPT ![r].pc = "clientCheck"]
  /\ UNCHANGED <<now, urls, url_clicks, nextId, nextClick, cache, parsing, tasks,
                 cr, wr, out, written, clients, nreq, nwrites, passed>>

\* `if (clientCount > 1000) return 429`, else the second INCR
\* (redirect:url:<code>:<ip>) runs.
UrlIncr(r) ==
  /\ rq[r].pc = "clientCheck"
  /\ IF rq[r].n > ClientMax
     THEN /\ RateLimited(r)
          /\ UNCHANGED rl
     ELSE /\ rl' = RedisIncr(UrlKey(rq[r].shortCode))
          /\ rq' = [rq EXCEPT ![r].n = IncrResult(UrlKey(rq[r].shortCode)),
                              ![r].pc = IF IncrResult(UrlKey(rq[r].shortCode)) = 1
                                        THEN "urlExpire" ELSE "urlCheck"]
          /\ UNCHANGED out
  /\ UNCHANGED <<now, urls, url_clicks, nextId, nextClick, cache, parsing, tasks,
                 cr, wr, written, clients, nreq, nwrites, passed>>

UrlExpire(r) ==
  /\ rq[r].pc = "urlExpire"
  /\ rl' = RedisExpire(UrlKey(rq[r].shortCode), UrlWindow)
  /\ rq' = [rq EXCEPT ![r].pc = "urlCheck"]
  /\ UNCHANGED <<now, urls, url_clicks, nextId, nextClick, cache, parsing, tasks,
                 cr, wr, out, written, clients, nreq, nwrites, passed>>

\* `if (urlCount > 10) return 429`, else next(): getUrlByShortCode starts
\* and reads the cache; a hit is returned as it is.
CacheGet(r) ==
  /\ rq[r].pc = "urlCheck"
  /\ IF rq[r].n > UrlMax
     THEN /\ RateLimited(r)
          /\ UNCHANGED <<tasks, passed>>
     ELSE /\ passed' = [passed EXCEPT ![rq[r].shortCode] = Append(@, now)]
          /\ IF RedisGet(rq[r].shortCode) # NullRec
             THEN Finish(r, RedisGet(rq[r].shortCode), TRUE, FALSE)
             ELSE /\ rq' = [rq EXCEPT ![r].pc = "dbQuery"]
                  /\ UNCHANGED <<tasks, out>>
  /\ UNCHANGED <<now, urls, url_clicks, nextId, nextClick, cache, rl, parsing,
                 cr, wr, written, clients, nreq, nwrites>>

\* The SELECT of getUrlByShortCode: no row, or an expired one, gives null.
DbQuery(r) ==
  /\ rq[r].pc = "dbQuery"
  /\ LET rows == SelectActiveByShortCode(rq[r].shortCode) IN
     IF rows = {}
     THEN Finish(r, NullRec, FALSE, TRUE)
     ELSE LET url == CHOOSE u \in rows : TRUE IN
          IF IsExpired(url)
          THEN Finish(r, NullRec, FALSE, TRUE)
          ELSE /\ rq' = [rq EXCEPT ![r].pc = "cacheSet", ![r].urlData = UrlDataOf(url)]
               /\ UNCHANGED <<tasks, out>>
  /\ UNCHANGED <<now, urls, url_clicks, nextId, nextClick, cache, rl, parsing,
                 cr, wr, written, clients, nreq, nwrites, passed>>

\* `await this.cacheUrl(urlData)`, then the record goes back to the handler.
CacheSet(r) ==
  /\ rq[r].pc = "cacheSet"
  /\ cache' = cacheUrl(rq[r].urlData)
  /\ Finish(r, rq[r].urlData, FALSE, TRUE)
  /\ UNCHANGED <<now, urls, url_clicks, nextId, nextClick, rl, parsing,
                 cr, wr, written, clients, nreq, nwrites, passed>>

\* handleRedirect from the point where getUrlByShortCode has returned this
\* record for the request: the limiter let it through and the service gave
\* urlData.
Given(r, urlData, ctx) ==
  /\ rq[r].pc = "idle"
  /\ InFlight < clients
  /\ nreq < MaxRequests
  /\ nreq' = nreq + 1
  /\ rq' = [rq EXCEPT ![r] = [IdleRq EXCEPT !.shortCode = urlData.shortCode,
                                             !.ctx = ctx, !.urlData = urlData,
                                             !.alone = (InFlight = 0),
                                             !.pc = "handle"]]
  /\ UNCHANGED <<now, urls, url_clicks, nextId, nextClick, cache, rl, parsing, tasks,
                 cr, wr, out, written, clients, nwrites, passed>>

\* ... and the handler's checks and its response.
Handle(r) ==
  /\ rq[r].pc = "handle"
  /\ Finish(r, rq[r].urlData, FALSE, FALSE)
  /\ UNCHANGED <<now, urls, url_clicks, nextId, nextClick, cache, rl, parsing,
                 cr, wr, written, clients, nreq, nwrites, passed>>

----------------------------------------------------------------------------
(* handleRedirect when Redis or the database fails *)

\* (A failed incr reported as a count above every limit.)
OverEveryLimit == ClientMax + 1

\* incr catches the error and returns null, which `> 1000` and `> 10` compare
\* as the number 0.
FailedCount == 0

\* A request arrives and client.incr of redirect:ip:<ip> throws.
ArriveDown(r, code, ctx) ==
  /\ rq[r].pc = "idle"
  /\ InFlight < clients
  /\ nreq < MaxRequests
  /\ nreq' = nreq + 1
  /\ rq' = [rq EXCEPT ![r] = [IdleRq EXCEPT !.shortCode = code, !.ctx = ctx,
                                 !.overlap = (wr.pc # "idle"),
                                 !.alone = (InFlight = 0),
                                 !.clicks0 = ClickCountOf(code),
                                 !.created = JustCreated(code),
                                 !.n = FailedCount,
                                 !.rlFailed = 1,
                                 !.pc = "clientCheck"]]
  /\ UNCHANGED <<now, urls, url_clicks, nextId, nextClick, cache, rl, parsing, tasks,
                 cr, wr, out, written, clients, nwrites, passed>>

\* client.expire throws after the INCR that created the key: incr returns
\* null and the key keeps no TTL.
ExpireDown(r) ==
  /\ rq[r].pc \in {"clientExpire", "urlExpire"}
  /\ rq' = [rq EXCEPT ![r].n = FailedCount,
                      ![r].rlFailed = @ + 1,
                      ![r].pc = IF rq[r].pc = "clientExpire"
                                THEN "clientCheck" ELSE "urlCheck"]
  /\ UNCHANGED <<now, urls, url_clicks, nextId, nextClick, cache, rl, parsing, tasks,
                 cr, wr, out, written, clients, nreq, nwrites, passed>>

\* The client count is within the limit and client.incr of
\* redirect:url:<code>:<ip> throws.
UrlIncrDown(r) ==
  /\ rq[r].pc = "clientCheck"
  /\ ~(rq[r].n > ClientMax)
  /\ rq' = [rq EXCEPT ![r].n = FailedCount,
                      ![r].rlFailed = @ + 1,
                      ![r].pc = "urlCheck"]
  /\ UNCHANGED <<now, urls, url_clicks, nextId, nextClick, cache, rl, parsing, tasks,
                 cr, wr, out, written, clients, nreq, nwrites, passed>>

\* The 500 of handleRedirect's catch.
ErrorAnswer(r) ==
  [Answer(r, NullRec, FALSE, FALSE) EXCEPT !.res = Response(500, "error", Undefined),
                                          !.again = FALSE]

\* (A get whose error reaches the catch of getUrlByShortCode.)
CacheGetThrows(r) ==
  /\ rq[r].pc = "urlCheck"
  /\ ~(rq[r].n > UrlMax)
  /\ passed' = [passed EXCEPT ![rq[r].shortCode] = Append(@, now)]
  /\ rq' = [rq EXCEPT ![r] = IdleRq]
  /\ out' = [ErrorAnswer(r) EXCEPT !.cacheFailed = TRUE]
  /\ UNCHANGED <<now, urls, url_clicks, nextId, nextClick, cache, rl, parsing, tasks,
                 cr, wr, written, clients, nreq, nwrites>>

\* The url count is within the limit and client.get throws: get returns
\* null, getUrlByShortCode goes on to the SELECT.
CacheGetDown(r) ==
  /\ rq[r].pc = "urlCheck"
  /\ ~(rq[r].n > UrlMax)
  /\ passed' = [passed EXCEPT ![rq[r].shortCode] = Append(@, now)]
  /\ rq' = [rq EXCEPT ![r].pc = "dbQuery", ![r].cacheFailed = TRUE]
  /\ UNCHANGED <<now, urls, url_clicks, nextId, nextClick, cache, rl, parsing, tasks,
                 cr, wr, out, written, clients, nreq, nwrites>>

\* client.setEx throws: set returns false, cacheUrl returns, and the record
\* goes back to the handler.
CacheSetDown(r) ==
  /\ rq[r].pc = "cacheSet"
  /\ rq' = [rq EXCEPT ![r] = IdleRq]
  /\ out' = [Answer(r, rq[r].urlData, FALSE, TRUE) EXCEPT !.cacheFailed = TRUE]
  /\ tasks' = Dispatched(r, rq[r].urlData)
  /\ UNCHANGED <<now, urls, url_clicks, nextId, nextClick, cache, rl, parsing,
                 cr, wr, written, clients, nreq, nwrites, passed>>

\* (A failed SELECT taken for an empty result.)
DbQueryDownAsMissing(r) ==
  /\ rq[r].pc = "dbQuery"
  /\ rq' = [rq EXCEPT ![r] = IdleRq]
  /\ out' = [Answer(r, NullRec, FALSE, TRUE) EXCEPT !.storeFailed = TRUE]
  /\ UNCHANGED <<now, urls, url_clicks, nextId, nextClick, cache, rl, parsing, tasks,
                 cr, wr, written, clients, nreq, nwrites, passed>>

\* The SELECT throws: getUrlByShortCode rethrows AppError('Failed to
\* retrieve URL', 500) and the catch of handleRedirect answers 500.
DbQueryDown(r) ==
  /\ rq[r].pc = "dbQuery"
  /\ rq' = [rq EXCEPT ![r] = IdleRq]
  /\ out' = [ErrorAnswer(r) EXCEPT !.queried = TRUE, !.storeFailed = TRUE]
  /\ UNCHANGED <<now, urls, url_clicks, nextId, nextClick, cache, rl, parsing, tasks,
                 cr, wr, written, clients, nreq, nwrites, passed>>

\* The passes of the last UrlWindow seconds, seen from time t.
Recent(times, t) == SelectSeq(times, LAMBDA at : at > t - UrlWindow)

\* The clock advances by d seconds (not beyond `until`), between requests
\* (none takes that long); Redis drops the keys whose TTL has run out.
Advance(d, until) ==
  /\ now + d <= until
  /\ InFlight = 0
  /\ now' = now + d
  /\ cache' = [c \in Codes |->
                 IF cache[c] # NullRec /\ cache[c].exp # NoTTL
                    /\ cache[c].exp <= now + d
                 THEN NullRec ELSE cache[c]]
  /\ rl' = [k \in RlKeys |->
              IF rl[k] # NullRec /\ rl[k].exp # NoTTL /\ rl[k].exp <= now + d
              THEN NullRec ELSE rl[k]]
  /\ passed' = [c \in Codes |-> Recent(passed[c], now + d)]
  /\ UNCHANGED <<urls, url_clicks, nextId, nextClick, parsing, rq, tasks, cr, wr,
                 out, written, clients, nreq, nwrites>>

\* Half an hour passes.
Tick == Advance(TickStep, MaxTime)

----------------------------------------------------------------------------
(* AnalyticsService.recordClick: the INSERT into url_clicks *)

RemoveAt(seq, i) == [j \in 1..(Len(seq) - 1) |-> IF j < i THEN seq[j] ELSE seq[j + 1]]

\* (A url_clicks table without the trigger.)
no_click_trigger(urlId) == urls

\* trigger_increment_url_clicks: UPDATE urls SET click_count = click_count + 1
\* WHERE id = NEW.url_id.
increment_url_clicks(urlId) ==
  {IF u.id = urlId THEN [u EXCEPT !.click_count = @ + 1] ELSE u : u \in urls}

\* The INSERT runs: the row is stored and the trigger fires, unless the link
\* is gone (url_id REFERENCES urls(id)), which recordClick catches.
RecordInsert(i) ==
  /\ i \in DOMAIN tasks
  /\ IF \E u \in urls : u.id = tasks[i].url_id
     THEN /\ url_clicks' = url_clicks \cup
                 {[id |-> nextClick, url_id |-> tasks[i].url_id,
                   user_agent |-> tasks[i].user_agent, is_bot |-> tasks[i].is_bot]}
          /\ nextClick' = nextClick + 1
          /\ urls' = increment_url_clicks(tasks[i].url_id)
     ELSE UNCHANGED <<url_clicks, nextClick, urls>>
  /\ tasks' = RemoveAt(tasks, i)
  /\ UNCHANGED <<now, nextId, cache, rl, parsing, rq, cr, wr, out, written, clients, nreq,
                 nwrites, passed>>

\* (A recorder whose failure reaches the response of the redirect.)
RecordFailPropagates(i) ==
  /\ i \in DOMAIN tasks
  /\ tasks' = RemoveAt(tasks, i)
  /\ out' = [out EXCEPT !.res = Response(500, "error", Undefined)]
  /\ UNCHANGED <<now, urls, url_clicks, nextId, nextClick, cache, rl, parsing, rq,
                 cr, wr, written, clients, nreq, nwrites, passed>>

\* The INSERT fails (store error): recordClick logs it and returns null.
RecordFail(i) ==
  /\ i \in DOMAIN tasks
  /\ tasks' = RemoveAt(tasks, i)
  /\ UNCHANGED <<now, urls, url_clicks, nextId, nextClick, cache, rl, parsing, rq,
                 cr, wr, out, written, clients, nreq, nwrites, passed>>

----------------------------------------------------------------------------
(* UrlService.createUrl *)

IdleCr == [pc |-> "idle", data |-> NullRec, shortCode |-> Null, i |-> 0,
           url |-> NullRec]

\* new URL(url) parses and the protocol is http: or https:.
UrlProtocol(u) ==
  CASE u = "https://a.example" -> "https:"
    [] u = "https://b.example" -> "https:"
    [] OTHER -> Undefined
UrlLength(u) ==
  CASE u = "https://a.example" -> 17
    [] u = "https://b.example" -> 17
    [] OTHER -> 15
validateUrl(u) == UrlProtocol(u) \in {"http:", "https:"} /\ UrlLength(u) <= MaxUrlLength

\* The checks generateShortCode makes on a custom alias before its SELECT.
AliasLengthOk(a) ==
  ~(Len(Chars(a)) < customAliasMinLength \/ Len(Chars(a)) > customAliasMaxLength)

\* The inputs createUrl is called with.
CreateData(originals, aliases, expiries) ==
  [originalUrl : originals, customAlias : aliases, userId : Owners,
   expiresAt : expiries]

\* `if (customAlias)`
HasAlias(data) == data.customAlias \notin {Undefined, Null, ""}

\* createUrl throws an AppError with this status (step: where the call was).
Failed(c, data, status) ==
  /\ cr' = [cr EXCEPT ![c] = IdleCr]
  /\ out' = [op |-> "create", data |-> data, status |-> status, result |-> NullRec,
             step |-> cr[c].pc]

\* createUrl is called (with an expiry, when one is given, in the future:
\* Joi.date().greater('now')): validateUrl, then generateShortCode up to its
\* first SELECT (for a custom alias after the length and charset checks,
\* otherwise after the first nanoid draw).
CreateStart(c, data) ==
  /\ cr[c].pc = "idle"
  /\ InFlight < clients
  /\ data.expiresAt = NoTime \/ data.expiresAt > now
  /\ nextId + Cardinality({d \in Creators : cr[d].pc # "idle"}) <= MaxIds
  /\ IF ~validateUrl(data.originalUrl) THEN Failed(c, data, 400)
     ELSE IF HasAlias(data)
     THEN IF ~AliasLengthOk(data.customAlias) \/ ~AliasRegex(data.customAlias)
          THEN Failed(c, data, 400)
          ELSE /\ cr' = [cr EXCEPT ![c] = [IdleCr EXCEPT !.pc = "aliasCheck",
                                                       !.data = data]]
               /\ UNCHANGED out
     ELSE /\ \E code \in RandomCodes :
               cr' = [cr EXCEPT ![c] = [IdleCr EXCEPT !.pc = "codeCheck", !.data = data,
                                                      !.shortCode = code]]
          /\ UNCHANGED out
  /\ UNCHANGED <<now, urls, url_clicks, nextId, nextClick, cache, rl, parsing, rq,
                 tasks, wr, written, clients, nreq, nwrites, passed>>

\* (A SELECT that looks at the custom_alias column only.)
AliasColumnTaken(a) == \E u \in urls : u.custom_alias = a

\* SELECT id FROM urls WHERE short_code = $1 OR custom_alias = $1
AliasTaken(a) == \E u \in urls : u.short_code = a \/ u.custom_alias = a

AliasCheck(c) ==
  /\ cr[c].pc = "aliasCheck"
  /\ IF AliasTaken(cr[c].data.customAlias)
     THEN Failed(c, cr[c].data, 409)
     ELSE /\ cr' = [cr EXCEPT ![c].pc = "insert",
                              ![c].shortCode = cr[c].data.customAlias]
          /\ UNCHANGED out
  /\ UNCHANGED <<now, urls, url_clicks, nextId, nextClick, cache, rl, parsing, rq,
                 tasks, wr, written, clients, nreq, nwrites, passed>>

\* (A lookup that finds every code free.)
CodeNeverTaken(code) == FALSE

\* SELECT id FROM urls WHERE short_code = $1
CodeTaken(code) == \E u \in urls : u.short_code = code

\* One round of the retry loop: the drawn code is free and is returned, or
\* the next code is drawn, or the retries are used up (500).
CodeCheck(c) ==
  /\ cr[c].pc = "codeCheck"
  /\ IF ~CodeTaken(cr[c].shortCode)
     THEN /\ cr' = [cr EXCEPT ![c].pc = "insert"]
          /\ UNCHANGED out
     ELSE IF cr[c].i + 1 < Retries
     THEN /\ \E code \in RandomCodes :
               cr' = [cr EXCEPT ![c].i = @ + 1, ![c].shortCode = code]
          /\ UNCHANGED out
     ELSE Failed(c, cr[c].data, 500)
  /\ UNCHANGED <<now, urls, url_clicks, nextId, nextClick, cache, rl, parsing, rq,
                 tasks, wr, written, clients, nreq, nwrites, passed>>

\* (The urls table without the UNIQUE constraint.)
NoUniqueIndex(code) == FALSE
\* short_code VARCHAR(50) UNIQUE NOT NULL
UniqueViolation(code) == \E u \in urls : u.short_code = code

NewRow(id, data, shortCode) ==
  [ id            |-> id,
    user_id       |-> data.userId,
    original_url  |-> data.originalUrl,
    short_code    |-> shortCode,
    custom_alias  |-> IF data.customAlias = Undefined THEN Null ELSE data.customAlias,
    title         |-> Null,
    description   |-> Null,
    is_active     |-> TRUE,
    password_hash |-> Null,
    click_count   |-> 0,
    expires_at    |-> data.expiresAt ]

\* INSERT INTO urls ... RETURNING *: a duplicate short_code makes the query
\* throw, which createUrl turns into 'Failed to create short URL' (500).
Insert(c) ==
  /\ cr[c].pc = "insert"
  /\ IF UniqueViolation(cr[c].shortCode)
     THEN /\ Failed(c, cr[c].data, 500)
          /\ UNCHANGED <<urls, nextId>>
     ELSE /\ urls' = urls \cup {NewRow(nextId, cr[c].data, cr[c].shortCode)}
          /\ nextId' = nextId + 1
          /\ cr' = [cr EXCEPT ![c].pc = "cache",
                              ![c].url = NewRow(nextId, cr[c].data, cr[c].shortCode)]
          /\ UNCHANGED out
  /\ UNCHANGED <<now, url_clicks, nextClick, cache, rl, parsing, rq, tasks, wr,
                 written, clients, nreq, nwrites, passed>>

\* What createUrl returns.
CreateResult(url) ==
  [ id          |-> url.id,
    originalUrl |-> url.original_url,
    shortCode   |-> url.short_code,
    customAlias |-> url.custom_alias,
    clickCount  |-> url.click_count,
    expiresAt   |-> url.expires_at ]

\* `await this.cacheUrl(url)` with the row the INSERT returned, then return.
CreateCache(c) ==
  /\ cr[c].pc = "cache"
  /\ cache' = cacheUrl(cr[c].url)
  /\ cr' = [cr EXCEPT ![c] = IdleCr]
  /\ out' = [op |-> "create", data |-> cr[c].data, status |-> 201,
             result |-> CreateResult(cr[c].url), at |-> now]
  /\ UNCHANGED <<now, urls, url_clicks, nextId, nextClick, rl, parsing, rq, tasks,
                 wr, written, clients, nreq, nwrites, passed>>

\* createUrlSchema.validate(req.body): originalUrl is an http(s) URI of at
\* most 2048 characters, customAlias (optional) is alphanumeric, 3 to 50
\* characters long.
createUrlSchema(data) ==
  /\ UrlProtocol(data.originalUrl) \in {"http:", "https:"}
  /\ UrlLength(data.originalUrl) <= MaxUrlLength
  /\ HasAlias(data) =>
       /\ alphanum(data.customAlias)
       /\ Len(Chars(data.customAlias)) >= customAliasMinLength
       /\ Len(Chars(data.customAlias)) <= customAliasMaxLength

\* POST /api/urls: a body that fails createUrlSchema is answered 400,
\* otherwise createUrl is called with it.
PostUrls(c, data) ==
  IF createUrlSchema(data)
  THEN CreateStart(c, data)
  ELSE /\ cr[c].pc = "idle"
       /\ InFlight < clients
       /\ Failed(c, data, 400)
       /\ UNCHANGED <<now, urls, url_clicks, nextId, nextClick, cache, rl, parsing, rq,
                      tasks, wr, written, clients, nreq, nwrites, passed>>

----------------------------------------------------------------------------
(* UrlService.updateUrl and deleteUrl *)

IdleWr == [pc |-> "idle", op |-> Null, id |-> 0, userId |-> Null, patch |-> NullRec,
           url |-> NullRec]

allowedUpdates == {"title", "description", "is_active", "is_public", "expires_at"}

\* The patches callers pass: the one the update test passes, a lone
\* isActive, and the column name is_active.
Patches ==
  { [title |-> "T1", description |-> "D1", isActive |-> FALSE],
    [isActive |-> FALSE],
    [is_active |-> FALSE] }

\* An update that names no field: `{}` passes updateUrlSchema, all of whose
\* keys are optional.
EmptyPatch == [f \in {} |-> FALSE]

\* The SET list of the UPDATE: the keys of the patch that are allowed.
UpdateFields(patch) == DOMAIN patch \cap allowedUpdates

ApplyPatch(row, patch) ==
  [f \in DOMAIN row |-> IF f \in UpdateFields(patch) THEN patch[f] ELSE row[f]]

\* What updateUrl returns.
UpdateResult(url) ==
  [ id          |-> url.id,
    originalUrl |-> url.original_url,
    shortCode   |-> url.short_code,
    customAlias |-> url.custom_alias,
    title       |-> url.title,
    description |-> url.description,
    isActive    |-> url.is_active,
    clickCount  |-> url.click_count,
    expiresAt   |-> url.expires_at ]

\* (A WHERE clause without the owner.)
RowsById(id, userId) == {u \in urls : u.id = id}

\* WHERE id = $n AND user_id = $m
OwnedRows(id, userId) == {u \in urls : u.id = id /\ u.user_id = userId}

\* updateUrl or deleteUrl throws an AppError with this status.
WriteFailed(op, id, userId, patch, status) ==
  /\ wr' = IdleWr
  /\ out' = [op |-> op, id |-> id, userId |-> userId, patch |-> patch,
             status |-> status, result |-> NullRec, url |-> NullRec]

\* A write that reaches the store while a redirect is in flight overlaps it.
Overlapped ==
  [r \in Resolvers |-> IF rq[r].pc \notin {"idle", "limited"} THEN [rq[r] EXCEPT !.overlap = TRUE]
                       ELSE rq[r]]

\* updateUrl: no allowed key gives 400; otherwise the UPDATE runs, and no row
\* gives 404.
Update(id, userId, patch) ==
  /\ wr.pc = "idle"
  /\ InFlight < clients
  /\ nwrites < MaxWrites
  /\ nwrites' = nwrites + 1
  /\ IF UpdateFields(patch) = {}
     THEN /\ WriteFailed("update", id, userId, patch, 400)
          /\ UNCHANGED <<urls, rq>>
     ELSE IF OwnedRows(id, userId) = {}
     THEN /\ WriteFailed("update", id, userId, patch, 404)
          /\ UNCHANGED <<urls, rq>>
     ELSE LET old == CHOOSE u \in OwnedRows(id, userId) : TRUE IN
          /\ urls' = (urls \ {old}) \cup {ApplyPatch(old, patch)}
          /\ rq' = Overlapped
          /\ wr' = [IdleWr EXCEPT !.pc = "invalidate", !.op = "update", !.id = id,
                                  !.userId = userId, !.patch = patch,
                                  !.url = ApplyPatch(old, patch)]
          /\ UNCHANGED out
  /\ UNCHANGED <<now, url_clicks, nextId, nextClick, cache, rl, parsing, tasks,
                 cr, written, clients, nreq, passed>>

\* (A url_clicks table that keeps the rows of a deleted link.)
KeepClicks(id) == url_clicks

\* url_id UUID REFERENCES urls(id) ON DELETE CASCADE: the url_clicks rows that
\* are left when the link is deleted.
CascadeClicks(id) == {k \in url_clicks : k.url_id # id}

\* deleteUrl: DELETE ... RETURNING short_code (url_clicks rows go with the
\* link); no row gives 404.
Delete(id, userId) ==
  /\ wr.pc = "idle"
  /\ InFlight < clients
  /\ nwrites < MaxWrites
  /\ nwrites' = nwrites + 1
  /\ IF OwnedRows(id, userId) = {}
     THEN /\ WriteFailed("delete", id, userId, NullRec, 404)
          /\ UNCHANGED <<urls, url_clicks, rq>>
     ELSE LET old == CHOOSE u \in OwnedRows(id, userId) : TRUE IN
          /\ urls' = urls \ {old}
          /\ url_clicks' = CascadeClicks(id)
          /\ rq' = Overlapped
          /\ wr' = [IdleWr EXCEPT !.pc = "invalidate", !.op = "delete", !.id = id,
                                  !.userId = userId, !.url = old]
          /\ UNCHANGED out
  /\ UNCHANGED <<now, nextId, nextClick, cache, rl, parsing, tasks, cr, written,
                 clients, nreq, passed>>

\* `await this.invalidateUrlCache(url.short_code)`, then the call returns.
Invalidate ==
  /\ wr.pc = "invalidate"
  /\ cache' = RedisDel(wr.url.short_code)
  /\ wr' = IdleWr
  /\ out' = [op |-> wr.op, id |-> wr.id, userId |-> wr.userId, patch |-> wr.patch,
             status |-> 200, url |-> wr.url,
             result |-> IF wr.op = "update" THEN UpdateResult(wr.url) ELSE NullRec]
  /\ written' = written \cup {wr.url.short_code}
  /\ UNCHANGED <<now, urls, url_clicks, nextId, nextClick, rl, parsing, rq, tasks,
                 cr, clients, nreq, nwrites, passed>>

\* invalidateUrlCache while Redis fails: client.del throws, del catches it
\* and returns false, and the write returns as if the entry were gone.
InvalidateDown ==
  /\ wr.pc = "invalidate"
  /\ wr' = IdleWr
  /\ out' = [op |-> wr.op, id |-> wr.id, userId |-> wr.userId, patch |-> wr.patch,
             status |-> 200, url |-> wr.url,
             result |-> IF wr.op = "update" THEN UpdateResult(wr.url) ELSE NullRec]
  /\ written' = written \cup {wr.url.short_code}
  /\ UNCHANGED <<now, urls, url_clicks, nextId, nextClick, cache, rl, parsing, rq,
                 tasks, cr, clients, nreq, nwrites, passed>>

----------------------------------------------------------------------------
(* The system *)

\* The initial state with these rows in the urls table (links created more
\* than an hour ago, so nothing of them is left in Redis).
InitStore(rows) ==
  /\ now = 0
  /\ urls = rows
  /\ url_clicks = {}
  /\ nextId = Cardinality(rows) + 1
  /\ nextClick = 1
  /\ cache = [c \in Codes |-> NullRec]
  /\ rq = [r \in Resolvers |-> IdleRq]
  /\ tasks = <<>>
  /\ cr = [c \in Creators |-> IdleCr]
  /\ wr = IdleWr
  /\ out = [op |-> "none"]
  /\ written = {}
  /\ nreq = 0
  /\ nwrites = 0

\* ... and no rate-limit counter is alive.
InitWith(rows) ==
  /\ InitStore(rows)
  /\ rl = [k \in RlKeys |-> NullRec]
  /\ passed = [c \in Codes |-> <<>>]

\* handleRedirect, for requests of these kinds.
Resolving(ctxs) ==
  \/ \E r \in Resolvers, code \in Codes, ctx \in ctxs : Arrive(r, code, ctx)
  \/ \E r \in Resolvers : ClientExpire(r)
  \/ \E r \in Resolvers : UrlIncr(r)
  \/ \E r \in Resolvers : UrlExpire(r)
  \/ \E r \in Resolvers : CacheGet(r)
  \/ \E r \in Resolvers : DbQuery(r)
  \/ \E r \in Resolvers : CacheSet(r)

\* The pending INSERTs of recordClick.
Recording ==
  \/ \E i \in 1..MaxRequests : RecordInsert(i)
  \/ \E i \in 1..MaxRequests : RecordFail(i)

\* handleRedirect while the rate-limit calls to Redis fail.
RateFailing(ctxs) ==
  \/ \E r \in Resolvers, code \in Codes, ctx \in ctxs : ArriveDown(r, code, ctx)
  \/ \E r \in Resolvers : ExpireDown(r)
  \/ \E r \in Resolvers : UrlIncrDown(r)

\* getUrlByShortCode while the cache calls to Redis fail.
CacheFailing ==
  \/ \E r \in Resolvers : CacheGetDown(r)
  \/ \E r \in Resolvers : CacheSetDown(r)

\* getUrlByShortCode while the database fails.
StoreFailing == \E r \in Resolvers : DbQueryDown(r)

\* createUrl, for these inputs.
Creating(inputs) ==
  \/ \E c \in Creators, data \in inputs : CreateStart(c, data)
  \/ \E c \in Creators : AliasCheck(c)
  \/ \E c \in Creators : CodeCheck(c)
  \/ \E c \in Creators : Insert(c)
  \/ \E c \in Creators : CreateCache(c)

\* POST /api/urls, for these request bodies.
Posting(inputs) ==
  \/ \E c \in Creators, data \in inputs : PostUrls(c, data)
  \/ \E c \in Creators : AliasCheck(c)
  \/ \E c \in Creators : CodeCheck(c)
  \/ \E c \in Creators : Insert(c)
  \/ \E c \in Creators : CreateCache(c)

\* updateUrl and deleteUrl, called by these users.
Writing(users) ==
  \/ \E id \in 1..MaxIds, u \in users, patch \in Patches : Update(id, u, patch)
  \/ \E id \in 1..MaxIds, u \in users : Delete(id, u)
  \/ Invalidate

\* One client that waits for each answer before its next call: links are
\* created, resolved by a browser, updated, deleted, and time passes.
Init ==
  /\ InitWith({})
  /\ parsing = TRUE
  /\ clients = 1

Next ==
  \/ Tick
  \/ Resolving({Browser})
  \/ Creating(CreateData({"https://a.example"}, {Undefined, "undefined"}, ExpiryInputs))
  \/ Writing(Owners)

Spec == Init /\ [][Next]_vars

\* A link created by u1 more than an hour ago, under a generated code.
PlainLink ==
  NewRow(1, [originalUrl |-> "https://a.example", customAlias |-> Undefined,
             userId |-> "u1", expiresAt |-> NoTime], "abc123")

\* Browsers resolve a stored link while its owner updates or deletes it, with
\* up to MaxClients calls in flight at once.
InitRace ==
  /\ InitWith({PlainLink})
  /\ parsing = TRUE
  /\ clients = MaxClients

NextRace ==
  \/ Tick
  \/ Resolving({Browser})
  \/ Writing(Owners)

SpecRace == InitRace /\ [][NextRace]_vars

\* Callers create links, with and without a custom alias, and delete them,
\* with up to MaxClients calls in flight at once.
InitCreate ==
  /\ InitWith({})
  /\ parsing = TRUE
  /\ clients = MaxClients

NextCreate ==
  \/ Creating(CreateData(UrlInputs, AliasInputs, {NoTime}))
  \/ \E id \in 1..MaxIds, u \in Users : Delete(id, u)
  \/ Invalidate

SpecCreate == InitCreate /\ [][NextCreate]_vars

\* Browsers, bots and previews resolve a stored link while the recorder's
\* INSERTs run, fail or stay pending; ENABLE_USER_AGENT_PARSING is set or not.
InitClicks ==
  /\ InitWith({PlainLink})
  /\ parsing \in BOOLEAN
  /\ clients = MaxClients

NextClicks ==
  \/ Tick
  \/ Resolving({Browser, Bot, Preview})
  \/ Recording

SpecClicks == InitClicks /\ [][NextClicks]_vars

\* The rate limiter at work: the client has sent requests for the link during
\* the last half minute, the first of them RateStep seconds before the counter
\* redirect:url:abc123:<ip> runs out and the others just now, so that the
\* counter stands at UrlMax - 1 or UrlMax; its redirect:ip counter, an hour
\* old, has just run out.
SeededCounter(n) ==
  [k \in RlKeys |->
     IF k = UrlKey("abc123")
     THEN [n |-> n, exp |-> RateStep, at |-> RateStep - UrlWindow]
     ELSE NullRec]

SeededPasses(n) ==
  [c \in Codes |->
     IF c = "abc123"
     THEN <<RateStep - UrlWindow>> \o [i \in 1..(n - 1) |-> 0]
     ELSE <<>>]

InitRate ==
  /\ InitStore({PlainLink})
  /\ \E n \in {UrlMax - 1, UrlMax} :
       /\ rl = SeededCounter(n)
       /\ passed = SeededPasses(n)
  /\ parsing = TRUE
  /\ clients = MaxClients

NextRate ==
  \/ Advance(RateStep, RateHorizon)
  \/ Resolving({Browser})

SpecRate == InitRate /\ [][NextRate]_vars

\* The event loop runs the continuation of every await whose Redis or
\* database call has completed: no handler step that can be taken is put off
\* for ever.
FairRate ==
  \A r \in Resolvers :
    WF_vars(ClientExpire(r) \/ UrlIncr(r) \/ UrlExpire(r) \/ CacheGet(r)
              \/ DbQuery(r) \/ CacheSet(r))

SpecRateLive == InitRate /\ [][NextRate]_vars /\ FairRate

\* The same, with rate-limit calls that may fail.
NextRateDown ==
  \/ Advance(RateStep, RateHorizon)
  \/ Resolving({Browser})
  \/ RateFailing({Browser})

SpecRateDown == InitRate /\ [][NextRateDown]_vars

\* A link that expires after a quarter of an hour.
ExpiringLink == [PlainLink EXCEPT !.expires_at = 900]

\* Browsers resolve a stored link, lasting or expiring, while the cache calls
\* to Redis may fail.
InitCacheDown ==
  /\ \E link \in {PlainLink, ExpiringLink} : InitWith({link})
  /\ parsing = TRUE
  /\ clients = MaxClients

NextCacheDown ==
  \/ Tick
  \/ Resolving({Browser})
  \/ CacheFailing

SpecCacheDown == InitCacheDown /\ [][NextCacheDown]_vars

\* Browsers resolve a stored link while the database may fail; the recorder
\* runs.
InitStoreDown ==
  /\ InitWith({PlainLink})
  /\ parsing = TRUE
  /\ clients = MaxClients

NextStoreDown ==
  \/ Tick
  \/ Resolving({Browser})
  \/ StoreFailing
  \/ Recording

SpecStoreDown == InitStoreDown /\ [][NextStoreDown]_vars

\* One caller at a time: a browser resolves the stored link, so that the
\* cache holds it, and its owner and another user call updateUrl and
\* deleteUrl for it and for an id that does not exist.
InitWrites ==
  /\ InitWith({PlainLink})
  /\ parsing = TRUE
  /\ clients = 1

NextWrites ==
  \/ Resolving({Browser})
  \/ \E id \in 1..MaxIds, u \in Users, patch \in Patches \cup {EmptyPatch} :
       Update(id, u, patch)
  \/ \E id \in 1..MaxIds, u \in Users : Delete(id, u)
  \/ Invalidate

SpecWrites == InitWrites /\ [][NextWrites]_vars

\* Browsers resolve a stored link and the recorder runs while the owner
\* updates or deletes the link.
InitClickLife ==
  /\ InitWith({PlainLink})
  /\ parsing = TRUE
  /\ clients = MaxClients

NextClickLife ==
  \/ Resolving({Browser})
  \/ Recording
  \/ Writing(Owners)

SpecClickLife == InitClickLife /\ [][NextClickLife]_vars

\* The link after its owner has given it a title and a description, while
\* the cache still holds the record from before that update, cached just now
\* by a resolve that had read the store before the update and wrote the cache
\* after the update's invalidation.
RetitledLink == [PlainLink EXCEPT !.title = "T1", !.description = "D1"]

StaleEntry ==
  [val |-> JSONstringify(UrlDataOf(PlainLink)), exp |-> CacheTTL, at |-> 0]

InitStale ==
  /\ now = 0
  /\ urls = {RetitledLink}
  /\ url_clicks = {}
  /\ nextId = 2
  /\ nextClick = 1
  /\ cache = [c \in Codes |-> IF c = "abc123" THEN StaleEntry ELSE NullRec]
  /\ rl = [k \in RlKeys |-> NullRec]
  /\ passed = [c \in Codes |-> <<>>]
  /\ rq = [r \in Resolvers |-> IdleRq]
  /\ tasks = <<>>
  /\ cr = [c \in Creators |-> IdleCr]
  /\ wr = IdleWr
  /\ out = [op |-> "none"]
  /\ written = {"abc123"}
  /\ nreq = 0
  /\ nwrites = MaxWrites
  /\ parsing = TRUE
  /\ clients = MaxClients

\* Browsers resolve while time passes, and the recorder runs.
NextStale ==
  \/ Tick
  \/ Resolving({Browser})
  \/ Recording

SpecStale == InitStale /\ [][NextStale]_vars

\* One client resolves a stored link and its owner updates or deletes it,
\* while the cache delete of the write may fail.
InitWritesDown ==
  /\ InitWith({PlainLink})
  /\ parsing = TRUE
  /\ clients = 1

NextWritesDown ==
  \/ Tick
  \/ Resolving({Browser})
  \/ Writing(Owners)
  \/ InvalidateDown

SpecWritesDown == InitWritesDown /\ [][NextWritesDown]_vars

\* One client posts create requests, one at a time, with no alias and with
\* aliases that are well-formed, too short, or outside the charset; the
\* owner deletes links.
PostedAliases == {Undefined, "abc123", "my-link", "ab", "a@b"}

InitPost ==
  /\ InitWith({})
  /\ parsing = TRUE
  /\ clients = 1

NextPost ==
  \/ Posting(CreateData(UrlInputs, PostedAliases, {NoTime}))
  \/ \E id \in 1..MaxIds, u \in Owners : Delete(id, u)
  \/ Invalidate

SpecPost == InitPost /\ [][NextPost]_vars

\* A link whose password_hash column holds the hash of "secret" (the column
\* of the urls table that handleRedirect's password check is written for).
ProtectedLink == [PlainLink EXCEPT !.password_hash = SecretHash]

\* Browsers resolve the protected link with no password, a wrong one and
\* the right one.
InitProtected ==
  /\ InitWith({ProtectedLink})
  /\ parsing = TRUE
  /\ clients = 1

NextProtected ==
  \/ Tick
  \/ Resolving({Browser, WithPassword("wrong"), WithPassword("secret")})

SpecProtected == InitProtected /\ [][NextProtected]_vars

\* Records with passwordHash set, as handleRedirect reads it, for links that
\* differ in nothing but originalUrl.
OriginalUrls == {"https://a.example", "https://b.example"}

ProtectedData(u) ==
  LET d == UrlDataOf([ProtectedLink EXCEPT !.original_url = u]) IN
  [f \in DOMAIN d \cup {"passwordHash"} |->
     IF f = "passwordHash" THEN SecretHash ELSE d[f]]

\* User agents, preview flags and passwords of the requests.
Requests ==
  [ua : {"Moz", "GBot"}, preview : {"true", "false"},
   password : {Undefined, "wrong", "secret"}]

\* One of these links is stored, and handleRedirect is given its record for
\* requests of every kind.
InitHandler ==
  /\ \E u \in OriginalUrls : InitWith({[ProtectedLink EXCEPT !.original_url = u]})
  /\ parsing = TRUE
  /\ clients = MaxClients

NextHandler ==
  \/ \E r \in Resolvers, u \in OriginalUrls, ctx \in Requests :
       /\ \E row \in urls : row.original_url = u
       /\ Given(r, ProtectedData(u), ctx)
  \/ \E r \in Resolvers : Handle(r)
  \/ Recording

SpecHandler == InitHandler /\ [][NextHandler]_vars

\* The link's expiresAt had passed when the answer was given.
PastExpiry(o) == o.row # NullRec /\ o.row.expires_at # NoTime /\ o.row.expires_at < o.at

\* C1: a resolve of a link whose expiresAt is in the past never produces a
\* Redirect, also when the link was cached before it expired.
C1_ExpiredNeverRedirects ==
  (out.op = "resolve" /\ PastExpiry(out)) => out.res.kind # "redirect"

\* The answer agrees with the store on what updateUrl and deleteUrl change:
\* no record when the link is gone, else no record or the stored title,
\* description and isActive.
ReflectsStore(o) ==
  IF o.row = NullRec THEN o.urlData = NullRec
  ELSE \/ o.urlData = NullRec
       \/ /\ Prop(o.urlData, "id") = o.row.id
          /\ Prop(o.urlData, "title") = o.row.title
          /\ Prop(o.urlData, "description") = o.row.description
          /\ TruthyFlag(o.urlData, "isActive") = o.row.is_active

\* C2: with one caller at a time (no resolve in flight during a write), once
\* updateUrl or deleteUrl has returned success for a link, every later
\* resolve of its short code reflects the write: NotFound after a delete, and
\* never the record from before the write.
C2_ResolveReflectsWrite ==
  (out.op = "resolve" /\ out.code \in written) => ReflectsStore(out)

C4_PasswordGate ==
  (out.op = "resolve" /\ out.row # NullRec /\ TruthyStr(out.row, "password_hash"))
    => /\ (out.ctx.password = Undefined \/ ~bcryptCompare(out.ctx.password, out.row.password_hash))
            => out.res.status = 401
       /\ out.res.kind = "redirect"
            => (out.ctx.password # Undefined
                /\ bcryptCompare(out.ctx.password, out.row.password_hash))

\* C5: an owner's update with isActive = false in the patch that returns
\* success leaves the stored link inactive and returns a record with
\* isActive = false.
C5_DeactivateDeactivates ==
  (out.op = "update" /\ out.status = 200 /\ "isActive" \in DOMAIN out.patch
     /\ out.patch.isActive = FALSE)
    => (out.url.is_active = FALSE /\ out.result.isActive = FALSE)

\* C6: no two stored links share a short code, and no link's short code is
\* the custom alias of another link, whatever createUrl and deleteUrl calls
\* have run and however they interleaved.
C6_Uniqueness ==
  \A u \in urls : \A v \in urls :
    u.id # v.id => (u.short_code # v.short_code /\ u.short_code # v.custom_alias)

\* Two createUrl calls raced for one custom alias: one link is stored under
\* it and the other call failed at the INSERT.
C6_Witness ==
  /\ out.op = "create"
  /\ out.status = 500
  /\ out.data.customAlias # Undefined
  /\ \E u \in urls : u.short_code = out.data.customAlias

\* C7: the step of handleRedirect that dispatches recordClick is the step
\* that sends the response, a browser's resolve of the live, passwordless
\* link being answered 301 to the original URL; and no step of the recorder,
\* completing or failing, changes a response or a request in flight.
C7_RecorderIndependent ==
  [][ /\ Len(tasks') > Len(tasks)
         => /\ out'.op = "resolve" /\ out'.recorded
            /\ out'.ctx = Browser
                 => out'.res = Response(301, "redirect", PlainLink.original_url)
      /\ Len(tasks') < Len(tasks) => (out' = out /\ rq' = rq) ]_vars

\* The redirect was delivered and its recording failed: nothing is pending
\* and no click is stored.
C7_Witness ==
  /\ out.op = "resolve" /\ out.recorded
  /\ out.res.kind = "redirect"
  /\ tasks = <<>>
  /\ url_clicks = {}

\* C8: after a resolve of a code that matches no link has answered NotFound,
\* a further resolve of the same code at the same time answers NotFound
\* without querying the store again.
C8_NoRepeatedStoreLookup ==
  (out.op = "resolve" /\ out.again /\ out.row = NullRec)
    => (out.res.kind = "notFound" /\ ~out.queried)

\* C9: a resolve of a code whose link exists but is inactive or past its
\* expiresAt answers 410, never 404.
C9_InactiveIsGone ==
  (out.op = "resolve" /\ out.row # NullRec
     /\ (out.row.is_active = FALSE \/ PastExpiry(out)))
    => out.res.status = 410

\* C10: every stored click of a request with a known-bot user agent has
\* is_bot = true, whether ENABLE_USER_AGENT_PARSING is set or not.
C10_BotClicksAreBot ==
  \A k \in url_clicks : detectBot(k.user_agent) => k.is_bot = TRUE

\* C11: when a resolve has been answered with the redirect (301), the stored
\* click count of the link, read at that moment, is above the value it had
\* when the request arrived: the click of this request is already counted.
C11_ClickCountedOnReturn ==
  (out.op = "resolve" /\ out.res.kind = "redirect" /\ out.row # NullRec)
    => out.row.click_count >= out.clicks0 + 1

\* The ClickEvents persisted for a link.
ClicksOf(urlId) == {c \in url_clicks : c.url_id = urlId}

CountsMatch == \A u \in urls : u.click_count = Cardinality(ClicksOf(u.id))

\* One step: each persisted ClickEvent more is one count more on its link,
\* and no link's count goes down.
CountsFollowInserts ==
  \A u \in urls : \A v \in urls' :
    v.id = u.id =>
      /\ v.click_count >= u.click_count
      /\ v.click_count - u.click_count
           = Cardinality(ClicksOf(u.id)') - Cardinality(ClicksOf(u.id))

\* C12: each link's click count equals the number of ClickEvents persisted
\* for it, in every state (so also whenever no recording is in progress);
\* every successful INSERT of the recorder raises the count by exactly one,
\* whatever the interleaving, and the count never decreases.
C12_ClickCountMatchesEvents == []CountsMatch /\ [][CountsFollowInserts]_vars

\* Two requests for one link were in flight together and both recordings
\* have completed: two ClickEvents, no recording left.
C12_Witness ==
  /\ tasks = <<>>
  /\ InFlight = 0
  /\ \E u \in urls : u.click_count = 2 /\ Cardinality(ClicksOf(u.id)) = 2
  /\ out.op = "resolve" /\ ~out.alone

\* C13: a request answered with Preview, PasswordRequired, NotFound,
\* Expired/Inactive or RateLimited has not started a click recording.
C13_OnlyRedirectsRecord ==
  (out.op = "resolve"
   /\ out.res.kind \in {"preview", "passwordRequired", "invalidPassword",
                         "notFound", "inactive", "rateLimited"})
    => ~out.recorded

\* C14 (as stated): for one client and one short code, no more than UrlMax
\* requests have passed the rate check within the last UrlWindow seconds.
C14_RollingWindow ==
  \A c \in Codes : Len(Recent(passed[c], now)) <= UrlMax

\* The requests the live counter of a code has let through.
PassedByCounter(c) ==
  IF Alive(rl[UrlKey(c)])
  THEN Len(SelectSeq(passed[c], LAMBDA at : at >= rl[UrlKey(c)].at))
  ELSE 0

\* C14 (amended): during the life of one counter redirect:url:<code>:<ip>
\* (the UrlWindow seconds from its first request) no more than UrlMax
\* requests pass the rate check, under any interleaving, and a request
\* counted beyond UrlMax is answered 429.
C14_FixedWindow ==
  /\ \A c \in Codes : PassedByCounter(c) <= UrlMax
  /\ (out.op = "resolve" /\ out.n > UrlMax) => out.res.kind = "rateLimited"

\* Two concurrent requests for the link: the one counted as number UrlMax has
\* passed the check, the one counted after it has been answered 429.
C14_Witness ==
  /\ out.op = "resolve" /\ out.res.kind = "rateLimited" /\ out.n = UrlMax + 1
  /\ PassedByCounter(out.code) = UrlMax
  /\ \E r \in Resolvers :
       /\ rq[r].pc = "dbQuery"
       /\ rq[r].shortCode = out.code
       /\ rq[r].n = UrlMax

\* C15: a request with a failed rate-limit call is not answered with an error;
\* it is answered 429 only on a count that a working call returned, and when
\* the last rate-limit call failed it goes on to the lookup.
C15_FailOpen ==
  (out.op = "resolve" /\ out.rlFailed > 0) =>
    /\ out.res.kind # "error"
    /\ out.res.kind = "rateLimited" => (out.n # FailedCount /\ out.n > UrlMax)
    /\ out.n = FailedCount => (out.hit \/ out.queried)

\* Both rate-limit calls of a request failed while the counter of the link
\* stood at its limit: the request was looked up and redirected.
C15_Witness ==
  /\ out.op = "resolve" /\ out.rlFailed = 2
  /\ out.queried /\ out.res.kind = "redirect"
  /\ Alive(rl[UrlKey(out.code)]) /\ rl[UrlKey(out.code)].n = UrlMax

\* What getUrlByShortCode returns for this row of the store at time t when
\* the cache is empty.
FromStore(row, t) ==
  IF row = NullRec THEN NullRec
  ELSE IF ~row.is_active THEN NullRec
  ELSE IF row.expires_at # NoTime /\ row.expires_at < t THEN NullRec
  ELSE UrlDataOf(row)

\* C16: a resolve during which a cache read or write failed is not answered
\* with an error: the store was read, and the record and the response are
\* those an empty working cache gives for what the store holds.
C16_CacheFailureIsAMiss ==
  (out.op = "resolve" /\ out.cacheFailed) =>
    /\ out.res.kind # "error"
    /\ out.queried /\ ~out.hit
    /\ out.urlData = FromStore(out.row, out.at)
    /\ out.res = HandlerResponse(FromStore(out.row, out.at), out.ctx)

\* The cache read failed while the cache held the link's record from before
\* it expired: the resolve read the store and answered NotFound.
C16_Witness ==
  /\ out.op = "resolve" /\ out.cacheFailed
  /\ out.res.kind = "notFound"
  /\ PastExpiry(out)
  /\ RedisGet(out.code) # NullRec

\* C17: a resolve whose store lookup failed (after a cache miss) is answered
\* 500, neither NotFound nor a redirect, and starts no click recording.
C17_StoreFailureIs500 ==
  (out.op = "resolve" /\ out.storeFailed) =>
    /\ out.res.status = 500
    /\ out.res.kind \notin {"notFound", "redirect"}
    /\ ~out.hit
    /\ ~out.recorded

\* The lookup of a live link failed: 500, and nothing is or will be recorded.
C17_Witness ==
  /\ out.op = "resolve" /\ out.storeFailed
  /\ out.res.status = 500
  /\ out.row # NullRec /\ out.row.is_active
  /\ InFlight = 0 /\ nreq = 1
  /\ tasks = <<>> /\ url_clicks = {}

\* The store has no link with this id that belongs to this user: the id does
\* not exist, or the link is another user's.
NotTheirs(id, userId) == ~\E u \in urls : u.id = id /\ u.user_id = userId

\* The updateUrl or deleteUrl call that this step makes: it has failed and
\* stands in out', or goes on and stands in wr'.
CallMade == IF wr'.pc = "idle" THEN out' ELSE wr'

\* C18 (as stated): every updateUrl and deleteUrl call for an id that does not
\* exist or for another user's link fails with 404 and leaves the store and
\* the cache as they were.
C18_NotFoundOrForbidden ==
  [][ (nwrites' # nwrites /\ NotTheirs(CallMade.id, CallMade.userId))
        => /\ wr'.pc = "idle"
           /\ out'.status = 404
           /\ urls' = urls /\ cache' = cache ]_vars

\* C18 (amended): such a call of deleteUrl, or of updateUrl with at least one
\* field that updateUrl accepts, fails with 404; updateUrl with no accepted
\* field fails with 400 before the store is asked; either way the store and
\* the cache are left as they were.
C18_NotFoundAfterValidation ==
  [][ (nwrites' # nwrites /\ NotTheirs(CallMade.id, CallMade.userId))
        => /\ wr'.pc = "idle"
           /\ out'.status = IF out'.op = "update" /\ UpdateFields(out'.patch) = {}
                             THEN 400 ELSE 404
           /\ urls' = urls /\ cache' = cache ]_vars

\* Another user's update of a link that the cache holds has failed with 404;
\* the link and its cache entry are there as before.
C18_Witness ==
  /\ out.op = "update" /\ out.status = 404 /\ out.userId = "u2"
  /\ \E u \in urls : u.id = out.id /\ u.user_id = "u1" /\ u.title = Null
                      /\ RedisGet(u.short_code) # NullRec

\* A stored link has this string as its short code or as its custom alias.
Occupied(a) == \E u \in urls : a \in {u.short_code, u.custom_alias}

C20_CreatedResolves ==
  (out.op = "resolve" /\ out.created # NullRec /\ out.alone) =>
    /\ out.res.kind = "redirect"
    /\ out.res.url = out.created.originalUrl
    /\ Prop(out.urlData, "id") = out.created.id
    /\ Prop(out.urlData, "shortCode") = out.created.shortCode
    /\ Prop(out.urlData, "originalUrl") = out.created.originalUrl

\* C21 (as stated): every persisted ClickEvent is still there, as it was,
\* after every step.
C21_ClicksOnlyGrow == [][url_clicks \subseteq url_clicks']_vars

\* This step deletes the link with this id.
LinkDeleted(urlId) ==
  /\ \E u \in urls : u.id = urlId
  /\ ~\E u \in urls' : u.id = urlId

\* C21 (amended): a persisted ClickEvent is never modified, and it is removed
\* only by deleteUrl of its link, which removes every ClickEvent of that
\* link with it: no ClickEvent is left for a link that is gone.
C21_ClicksGoWithTheirLink ==
  /\ [](\A k \in url_clicks : \E u \in urls : u.id = k.url_id)
  /\ [][\A k \in url_clicks : k \in url_clicks' \/ LinkDeleted(k.url_id)]_vars

\* The link has been deleted after a click on it was persisted: the store
\* holds neither.
C21_Witness ==
  /\ out.op = "delete" /\ out.status = 200
  /\ nextClick > 1
  /\ url_clicks = {} /\ urls = {}

\* The alias is 3 to 50 characters long over [A-Za-z0-9_-].
WellFormedAlias(a) ==
  /\ Len(Chars(a)) >= customAliasMinLength
  /\ Len(Chars(a)) <= customAliasMaxLength
  /\ \A i \in 1..Len(Chars(a)) : Chars(a)[i] \in AliasChar

\* C22: a create request (one at a time) with a valid URL and a well-formed
\* custom alias that is not taken is answered 201 with the alias as shortCode
\* and customAlias; one with an alias outside the length or the charset is
\* answered 400.
C22_WellFormedAliasAccepted ==
  (out.op = "create" /\ HasAlias(out.data) /\ validateUrl(out.data.originalUrl)) =>
    IF WellFormedAlias(out.data.customAlias)
    THEN \/ out.status = 409
         \/ /\ out.status = 201
            /\ out.result.shortCode = out.data.customAlias
            /\ out.result.customAlias = out.data.customAlias
    ELSE out.status = 400

\* C23: a createUrl call with a custom alias that fails while a link created
\* with that same custom alias is stored, whether the other call finished
\* before it started or overtook it between its availability check and its
\* INSERT, fails with 409.
C23_RaceLoserGetsConflict ==
  ( /\ out.op = "create"
    /\ HasAlias(out.data)
    /\ out.status \notin {201, 400}
    /\ \E u \in urls : u.custom_alias = out.data.customAlias )
  => out.status = 409

\* C24: the step in which a successful updateUrl or deleteUrl returns leaves
\* no live cache entry for the link's short code, whether or not the cache
\* delete succeeded.
C24_InvalidatedBeforeReturn ==
  [][ (wr.pc = "invalidate" /\ wr'.pc = "idle")
        => ~Alive(cache'[wr.url.short_code]) ]_vars

\* The record but for its click count, which the recorder moves on its own.
SansClicks(urlData) ==
  IF urlData = NullRec THEN NullRec ELSE [urlData EXCEPT !.clickCount = 0]

\* C25: every cache entry ends CacheTTL seconds after it was written; a
\* resolve answered from the cache is answered from an entry younger than
\* that; and a resolve that finds no live entry, and that no write overlaps,
\* reads the store, returns what the store holds (the click count as it was
\* read), and leaves that record in the cache.
C25_StaleForOneTTL ==
  /\ \A c \in Codes :
       cache[c] # NullRec => cache[c].exp = cache[c].at + CacheTTL
  /\ (out.op = "resolve" /\ out.hit) => out.age < CacheTTL
  /\ (out.op = "resolve" /\ ~out.hit /\ ~out.overlap /\ out.res.kind # "rateLimited")
       => /\ out.queried
          /\ SansClicks(out.urlData) = SansClicks(FromStore(out.row, out.at))
          /\ (out.urlData # NullRec /\ out.at = now)
               => RedisGet(out.code) = JSONparse(JSONstringify(out.urlData))

\* The stale entry has expired: the resolve, an hour after the entry was
\* written, read the store and answered with the link's new title, which is
\* now what the cache holds.
C25_Witness ==
  /\ out.op = "resolve"
  /\ out.code \in written
  /\ ~out.hit /\ out.queried
  /\ out.at >= CacheTTL
  /\ Prop(out.urlData, "title") = "T1"
  /\ RedisGet(out.code) # NullRec
  /\ RedisGet(out.code).title = "T1"

\* C26: generateShortCode without a custom alias makes at most 5 lookups;
\* when it returns a code, its last lookup found no link with that code in
\* the store; otherwise its fifth lookup found the fifth drawn code taken and
\* the call fails with 500, leaving the store as it was.
C26_AtMostFiveLookups ==
  /\ [](\A c \in Creators : cr[c].pc = "codeCheck" => cr[c].i < 5)
  /\ [][ \A c \in Creators :
           (cr[c].pc = "codeCheck" /\ cr'[c].pc # "codeCheck") =>
             IF cr'[c].pc = "insert"
             THEN /\ cr'[c].shortCode = cr[c].shortCode
                  /\ ~\E u \in urls : u.short_code = cr[c].shortCode
             ELSE /\ cr'[c].pc = "idle"
                  /\ cr[c].i = 4
                  /\ \E u \in urls : u.short_code = cr[c].shortCode
                  /\ out'.op = "create" /\ out'.status = 500
                  /\ urls' = urls ]_vars

\* Five draws in a row collided with a stored link and the call has failed.
C26_Witness ==
  /\ out.op = "create"
  /\ out.status = 500
  /\ out.step = "codeCheck"
  /\ ~HasAlias(out.data)
  /\ \A code \in RandomCodes : \E u \in urls : u.short_code = code

\* The short code of a cached object, under either spelling of the field.
CodeOfCached(v) ==
  IF "shortCode" \in DOMAIN v THEN v.shortCode
  ELSE IF "short_code" \in DOMAIN v THEN v.short_code
  ELSE Undefined

\* C27: every cache entry under the key url:<code> holds the data of a link
\* whose short code is <code>.
C27_EntryUnderItsOwnCode ==
  \A c \in Codes :
    cache[c] # NullRec => CodeOfCached(JSONparse(cache[c].val)) = c

C29_CountersCarryTTL ==
  \A k \in RlKeys :
    (rl[k] # NullRec /\ rl[k].exp = NoTTL) =>
      \E r \in Resolvers :
        \/ rq[r].pc = "clientExpire" /\ k = ClientKey
        \/ rq[r].pc = "urlExpire" /\ k = UrlKey(rq[r].shortCode)

\* C30: every invocation of handleRedirect that has started eventually
\* completes.
C30_EveryInvocationSettles ==
  \A r \in Resolvers : (rq[r].pc # "idle") ~> (rq[r].pc = "idle")

====
